---- MODULE Spec2Model ----
(***************************************************************************)
(* A model of sim900.py: the AT-command session of a SIM900 modem.         *)
(*                                                                         *)
(* Text.  A Python str is modelled as a sequence of lexemes.  A lexeme is  *)
(* a run of characters that none of the program's string operations ever   *)
(* cuts: the separators the code splits on (",", " ", the double quote)    *)
(* and the markers it searches for are lexemes or sequences of lexemes, so *)
(* `f in x` is a search for a contiguous subsequence, str.split walks the  *)
(* sequence, and str.replace('"', "") drops the quote lexemes.  A line is  *)
(* such a str; a batch is a tuple of lines.  The raw bytes of the          *)
(* transport are a sequence of segments, the pieces between "\r\n"         *)
(* separators (empty pieces included).                                     *)
(*                                                                         *)
(* Control.  The program is single threaded.  The only places where the    *)
(* modem's output can be observed are read_all() and in_waiting, and the   *)
(* only places where time passes are the two sleeps, so an action of the   *)
(* model is the code that runs from one sleep to the next.                 *)
(*                                                                         *)
(* Environment.  The modem emits unsolicited lines in the formats of its   *)
(* AT command surface (RING with +CLIP, +CMTI, +CUSD, NORMAL POWER DOWN),  *)
(* answers the writes in order, at any time after the write or never, and  *)
(* is silent once it has announced its power-down.  The application calls  *)
(* connect() and run(); run() is called once.  The handlers are the        *)
(* default ones, which do nothing.  History variables record what the      *)
(* properties speak about: the order of invocations, the last batch        *)
(* classified, the last transaction.                                       *)
(***************************************************************************)
EXTENDS Integers, Sequences, FiniteSets, TLC

(* ------------------------------ bounds -------------------------------- *)

\* Lines the modem emits unsolicited during a session.
MaxUrc == 2
\* Fragments ingested by the reassembly buffer in the buffer-only spec.
MaxIngest == 3

(* --------------------------- Python strings --------------------------- *)

Q == "\""
SP == " "
COMMA == ","

\* f in x (str.__contains__): f occurs in x as a contiguous run.
Contains(f, x) ==
    \E i \in 0..(Len(x) - Len(f)) : SubSeq(x, i + 1, i + Len(f)) = f

\* x.replace(c, ""), for a one-lexeme c.
Replace(x, c) == SelectSeq(x, LAMBDA l : l # c)

\* x.split(sep), for a one-lexeme sep: cut at every occurrence of sep, empty
\* pieces kept.
RECURSIVE Split(_, _)
Split(x, sep) ==
    IF \A i \in 1..Len(x) : x[i] # sep
    THEN <<x>>
    ELSE LET k == CHOOSE i \in 1..Len(x) :
                      x[i] = sep /\ \A j \in 1..(i - 1) : x[j] # sep
         IN <<SubSeq(x, 1, k - 1)>> \o Split(SubSeq(x, k + 1, Len(x)), sep)

\* x.split(): cut at runs of whitespace, empty pieces dropped.
SplitWs(x) == SelectSeq(Split(x, SP), LAMBDA w : w # <<>>)

Digits == <<"0", "1", "2", "3", "4", "5", "6", "7", "8", "9">>

DigitVal(l) == (CHOOSE d \in 1..10 : Digits[d] = l) - 1

IsNumber(x) ==
    /\ Len(x) > 0
    /\ \A i \in 1..Len(x) : \E d \in 1..10 : Digits[d] = x[i]

\* int(x), for a str of decimal digits.
RECURSIVE IntOf(_)
IntOf(x) ==
    IF Len(x) = 0 THEN 0
    ELSE 10 * IntOf(SubSeq(x, 1, Len(x) - 1)) + DigitVal(x[Len(x)])

\* f"{n}", for 0 <= n <= 9.
StrOf(n) == <<Digits[n + 1]>>

(* ------------------- lines of the AT command surface ------------------ *)

CR == "\r"

RING == <<"RING">>
CLIP == <<"CLIP:">>
CUSD == <<"CUSD:">>
CMTI == <<"+", "CMTI:", SP, Q, "SM", Q>>
NPD == <<"NORMAL", SP, "POWER", SP, "DOWN">>
OK == <<"OK">>
ERROR == <<"ERROR">>

Phones == {"+15551234567", "+15557654321"}

\* +CLIP: "<number>",145
ClipLine(ph) == <<"+", "CLIP:", SP, Q, ph, Q, COMMA, "145">>
\* +CMTI: "SM",<index>
CmtiLine(i) == CMTI \o <<COMMA>> \o StrOf(i)
\* +CUSD: 0,"<hex>",72
CusdLine(hex) == <<"+", "CUSD:", SP, "0", COMMA, Q>> \o hex \o <<Q, COMMA, "72">>

\* Storage indices the modem announces.
SmsIds == {1}

\* chr(int(u, 16)) for a group u of four hex digits.
Chr(u) == CASE u = "0041" -> "A" [] u = "0042" -> "B" [] OTHER -> "?"

(* ------------------------------ PDU codec ----------------------------- *)

\* gsmmodem.pdu.decodeSmsPdu is a library outside the repository.  A PDU is
\* the lexemes <<"0791", sender, time, text>>, followed for a part of a
\* concatenated message by the three digits of its header: reference, part
\* number, number of parts.  Every other str is malformed.
PduOk(p) ==
    /\ Len(p) \in {4, 7}
    /\ p[1] = "0791"
    /\ Len(p) = 7 => \A i \in 5..7 : IsNumber(<<p[i]>>)

decodeSmsPdu(p) ==
    [number |-> <<p[2]>>, time |-> p[3], text |-> <<p[4]>>,
     udh |-> IF Len(p) = 7
             THEN <<[reference |-> IntOf(<<p[5]>>), number |-> IntOf(<<p[6]>>),
                     parts |-> IntOf(<<p[7]>>)]>>
             ELSE <<>>]

Pdu(ph, ts, text) == <<"0791", ph, ts, text>>
PduPart(ph, ts, text, ref, idx, total) ==
    <<"0791", ph, ts, text>> \o StrOf(ref) \o StrOf(idx) \o StrOf(total)
PduBad == <<"07">>

(* ------------------------- Call and Message --------------------------- *)

Call(phone) == [phone |-> phone, ts |-> "now"]
Message(phone, ts, text) == [phone |-> phone, ts |-> ts, text |-> text]

\* Optional values: None is <<>>, a value v is <<v>>.
None == <<>>
Some(v) == <<v>>

(* -------------------------- AdditionMessages -------------------------- *)

\* Python dicts are functions with a finite domain.
EmptyDict == [k \in {} |-> None]
DictPut(d, k, v) == [x \in DOMAIN d \cup {k} |-> IF x = k THEN v ELSE d[x]]
DictPop(d, k) == [x \in DOMAIN d \ {k} |-> d[x]]

\* Defect: the texts are joined from the highest part number down.
RECURSIVE JoinSortedReversed(_)
JoinSortedReversed(t) ==
    IF DOMAIN t = {} THEN <<>>
    ELSE LET i == CHOOSE x \in DOMAIN t : \A y \in DOMAIN t : x >= y
         IN t[i] \o JoinSortedReversed(DictPop(t, i))

\* "".join(t[i] for i in sorted(t.keys()))
RECURSIVE JoinSorted(_)
JoinSorted(t) ==
    IF DOMAIN t = {} THEN <<>>
    ELSE LET i == CHOOSE x \in DOMAIN t : \A y \in DOMAIN t : x <= y
         IN t[i] \o JoinSorted(DictPop(t, i))

\* Defect: a str that fails to decode empties the buffer.
AdditionMessages_call_resets(m, msg) ==
    IF ~PduOk(msg) THEN [m |-> EmptyDict, ret |-> None]
    ELSE
    LET d == decodeSmsPdu(msg) IN
    IF d.udh # <<>>
    THEN LET h == d.udh[1]
             e == IF h.reference \in DOMAIN m THEN m[h.reference] ELSE EmptyDict
             m1 == DictPut(m, h.reference, DictPut(e, h.number, d.text))
         IN IF Cardinality(DOMAIN m1[h.reference]) = h.parts
            THEN [m |-> DictPop(m1, h.reference),
                  ret |-> Some(Message(d.number, d.time,
                                       JoinSorted(m1[h.reference])))]
            ELSE [m |-> m1, ret |-> None]
    ELSE [m |-> m, ret |-> Some(Message(d.number, d.time, d.text))]

\* Defect: a message in one part empties the buffer.
AdditionMessages_call_plain_clears(m, msg) ==
    IF ~PduOk(msg) THEN [m |-> m, ret |-> None]
    ELSE
    LET d == decodeSmsPdu(msg) IN
    IF d.udh # <<>>
    THEN LET h == d.udh[1]
             e == IF h.reference \in DOMAIN m THEN m[h.reference] ELSE EmptyDict
             m1 == DictPut(m, h.reference, DictPut(e, h.number, d.text))
         IN IF Cardinality(DOMAIN m1[h.reference]) = h.parts
            THEN [m |-> DictPop(m1, h.reference),
                  ret |-> Some(Message(d.number, d.time,
                                       JoinSorted(m1[h.reference])))]
            ELSE [m |-> m1, ret |-> None]
    ELSE [m |-> EmptyDict, ret |-> Some(Message(d.number, d.time, d.text))]

\* AdditionMessages.__call__(msg) on the dict m: the new dict and the value
\* returned.  EncodingError is swallowed and None returned.
AdditionMessages_call(m, msg) ==
    IF ~PduOk(msg) THEN [m |-> m, ret |-> None]
    ELSE
    LET d == decodeSmsPdu(msg) IN
    IF d.udh # <<>>
    THEN LET h == d.udh[1]
             e == IF h.reference \in DOMAIN m THEN m[h.reference] ELSE EmptyDict
             m1 == DictPut(m, h.reference, DictPut(e, h.number, d.text))
         IN IF Cardinality(DOMAIN m1[h.reference]) = h.parts
            THEN [m |-> DictPop(m1, h.reference),
                  ret |-> Some(Message(d.number, d.time,
                                       JoinSorted(m1[h.reference])))]
            ELSE [m |-> m1, ret |-> None]
    ELSE [m |-> m, ret |-> Some(Message(d.number, d.time, d.text))]

(* ------------------------------ parsing ------------------------------- *)

\* parser_read(st), st the bytes read: the non-empty pieces between "\r\n".
parser_read(st) == SelectSeq(st, LAMBDA x : x # <<>>)

\* decode(st): one character per group of four hex digits.
decode(st) == [i \in 1..Len(st) |-> Chr(st[i])]

(* ---------------------- the session's operations --------------------- *)

\* The part of the session a batch handler reads and writes, threaded through
\* the handlers in program order:
\*   task_queue, many_sms, npd, status   the fields of Sim900
\*   out     the bytes written to the transport, one element per write
\*   trace   the writes, handler calls and appends, in the order they happen
\*   nseq    the number of tasks appended so far (each task carries its own)
Task(h, sms_id, msg, seq) == [h |-> h, sms_id |-> sms_id, msg |-> msg, seq |-> seq]

Ev(op, arg) == [op |-> op, arg |-> arg]

\* self._task_queue.append((h, args))
QueueAppend(E, h, sms_id, msg) ==
    [E EXCEPT !.task_queue = Append(@, Task(h, sms_id, msg, E.nseq + 1)),
              !.nseq = @ + 1,
              !.trace = Append(@, Ev("append", <<h>>))]

\* command(c): write c + "\r" to the transport.
command(E, c) ==
    [E EXCEPT !.out = Append(@, c \o <<CR>>),
              !.trace = Append(@, Ev("write", c \o <<CR>>))]

ATH == <<"ATH">>

\* Defect: the hang-up is a transaction (send_command for command).
hung_up_call_transaction(E) ==
    [command(E, ATH) EXCEPT !.trace = Append(@, Ev("read", ATH \o <<CR>>))]

hung_up_call(E) == command(E, ATH)

\* The default call handler does nothing; the call is recorded.
additional_function_call(E, c) ==
    [E EXCEPT !.trace = Append(@, Ev("call", c.phone))]

RECURSIVE incoming_call_for(_, _)
incoming_call_for(E, ds) ==
    IF ds = <<>> THEN E
    ELSE LET d == Head(ds)
             phone == SplitWs(Split(Replace(d, Q), COMMA)[1])[2]
         IN incoming_call_for(additional_function_call(E, Call(phone)), Tail(ds))

\* Defect: the call handlers run before the hang-up is written.
incoming_call_late_hangup(E, data) ==
    hung_up_call(incoming_call_for(E, SelectSeq(data, LAMBDA x : Contains(CLIP, x))))

incoming_call(E, data) ==
    incoming_call_for(hung_up_call(E),
                      SelectSeq(data, LAMBDA x : Contains(CLIP, x)))

RECURSIVE incoming_message_for(_, _)
incoming_message_for(E, ds) ==
    IF ds = <<>> THEN E
    ELSE LET d == Head(ds)
             sms_id == IntOf(Split(d, COMMA)[2])
             E1 == IF sms_id > 0 THEN [E EXCEPT !.many_sms = TRUE] ELSE E
         IN incoming_message_for(QueueAppend(E1, "__incoming_sms", sms_id, None),
                                 Tail(ds))

incoming_message(E, data) ==
    incoming_message_for(E, SelectSeq(data, LAMBDA x : Contains(CMTI, x)))

RECURSIVE incoming_ussd_for(_, _)
incoming_ussd_for(E, ds) ==
    IF ds = <<>> THEN E
    ELSE LET d == Head(ds)
             msg == Message(<<"USSD">>, "now",
                            decode(Replace(Split(d, COMMA)[2], Q)))
         IN incoming_ussd_for(
                QueueAppend(E, "additional_function_message", -1, Some(msg)),
                Tail(ds))

incoming_ussd(E, data) ==
    incoming_ussd_for(E, SelectSeq(data, LAMBDA x : Contains(CUSD, x)))

\* checking(f, ls)
checking(f, ls) == \E i \in 1..Len(ls) : Contains(f, ls[i])

\* Defect: the power-down branch leaves status alone and returns False.
checking_incoming_data_npd_only(E, st) ==
    LET E1 == IF checking(RING, st) THEN incoming_call(E, st) ELSE E
        E2 == IF checking(CUSD, st) THEN incoming_ussd(E1, st) ELSE E1
        E3 == IF checking(CMTI, st) THEN incoming_message(E2, st) ELSE E2
    IN IF checking(NPD, st)
       THEN [E |-> [E3 EXCEPT !.npd = TRUE], ret |-> FALSE]
       ELSE [E |-> E3, ret |-> FALSE]

\* Defect: the ring handling is not guarded by its marker.
checking_incoming_data_always_ring(E, st) ==
    LET E1 == incoming_call(E, st)
        E2 == IF checking(CUSD, st) THEN incoming_ussd(E1, st) ELSE E1
        E3 == IF checking(CMTI, st) THEN incoming_message(E2, st) ELSE E2
    IN IF checking(NPD, st)
       THEN [E |-> [E3 EXCEPT !.npd = TRUE, !.status = FALSE], ret |-> TRUE]
       ELSE [E |-> E3, ret |-> FALSE]

\* Defect: the new-message lines are handled before the USSD lines.
checking_incoming_data_message_first(E, st) ==
    LET E1 == IF checking(RING, st) THEN incoming_call(E, st) ELSE E
        E2 == IF checking(CMTI, st) THEN incoming_message(E1, st) ELSE E1
        E3 == IF checking(CUSD, st) THEN incoming_ussd(E2, st) ELSE E2
    IN IF checking(NPD, st)
       THEN [E |-> [E3 EXCEPT !.npd = TRUE, !.status = FALSE], ret |-> TRUE]
       ELSE [E |-> E3, ret |-> FALSE]

\* checking_incoming_data(st): the session afterwards and the value returned.
checking_incoming_data(E, st) ==
    LET E1 == IF checking(RING, st) THEN incoming_call(E, st) ELSE E
        E2 == IF checking(CUSD, st) THEN incoming_ussd(E1, st) ELSE E1
        E3 == IF checking(CMTI, st) THEN incoming_message(E2, st) ELSE E2
    IN IF checking(NPD, st)
       THEN [E |-> [E3 EXCEPT !.npd = TRUE, !.status = FALSE], ret |-> TRUE]
       ELSE [E |-> E3, ret |-> FALSE]

\* Defect: the status line is returned with the interior lines (data[1:]).
parser_command_keeps_status(E, data, buf) ==
    LET c == checking_incoming_data(E, data) IN
    IF Len(data) = 0
    THEN [E |-> c.E, exc |-> "Sim900NoResponse", ret |-> <<>>, carried |-> <<>>,
          chk |-> c.ret]
    ELSE IF data[Len(data)] = ERROR
    THEN [E |-> c.E, exc |-> "Sim900Error", ret |-> <<>>, carried |-> buf,
          chk |-> c.ret]
    ELSE [E |-> c.E, exc |-> "none", ret |-> SubSeq(data, 2, Len(data)),
          carried |-> <<>>, chk |-> c.ret]

\* Defect: the batch is classified only when the transaction succeeds.
parser_command_classifies_last(E, data, buf) ==
    LET c == checking_incoming_data(E, data) IN
    IF Len(data) = 0
    THEN [E |-> E, exc |-> "Sim900NoResponse", ret |-> <<>>, carried |-> <<>>,
          chk |-> FALSE]
    ELSE IF data[Len(data)] = ERROR
    THEN [E |-> E, exc |-> "Sim900Error", ret |-> <<>>, carried |-> buf,
          chk |-> FALSE]
    ELSE [E |-> c.E, exc |-> "none", ret |-> SubSeq(data, 2, Len(data) - 1),
          carried |-> <<>>, chk |-> c.ret]

\* parser_command(data), buf the bytes last read (self.buffer): the session
\* afterwards, the exception raised ("none" when it returns), the value
\* returned and what the exception carries.
parser_command(E, data, buf) ==
    LET c == checking_incoming_data(E, data) IN
    IF Len(data) = 0
    THEN [E |-> c.E, exc |-> "Sim900NoResponse", ret |-> <<>>, carried |-> <<>>,
          chk |-> c.ret]
    ELSE IF data[Len(data)] = ERROR
    THEN [E |-> c.E, exc |-> "Sim900Error", ret |-> <<>>, carried |-> buf,
          chk |-> c.ret]
    ELSE [E |-> c.E, exc |-> "none", ret |-> SubSeq(data, 2, Len(data) - 1),
          carried |-> <<>>, chk |-> c.ret]

(* ------------------------------ the modem ----------------------------- *)

CMGR == "AT+CMGR="
CMGD == "AT+CMGD="

\* What the modem emits unsolicited, one group at a time: a ring with the
\* caller's number, a new-message notification, a USSD response, the
\* power-down notice.
UrcGroups ==
    {<<RING, <<>>, ClipLine(ph)>> : ph \in Phones}
    \cup {<<CmtiLine(i)>> : i \in SmsIds}
    \cup {<<CusdLine(<<"0041", "0042">>)>>}
    \cup {<<NPD>>}

\* The PDUs in the modem's storage.
ModemPdus ==
    {Pdu("+15551234567", "T1", "A"),
     PduPart("+15551234567", "T1", "A", 1, 1, 2),
     PduPart("+15557654321", "T2", "B", 1, 2, 2)}

\* The modem's possible answers to the written bytes c (the command and its
\* "\r"): the echo, the response lines, the final status, as pieces between
\* "\r\n" separators.
Answers(c) ==
    IF c[1] = CMGR
    THEN {<<c, <<"+CMGR:", SP, "0", COMMA, COMMA, "24">>, pdu, <<>>, OK>> :
              pdu \in ModemPdus}
         \cup {<<c, <<>>, OK>>, <<c, <<>>, ERROR>>}
    ELSE IF c[1] = CMGD
    THEN {<<c, <<>>, OK>>, <<c, <<>>, ERROR>>}
    ELSE {<<c, <<>>, OK>>}

(* ------------------------------- state -------------------------------- *)

VARIABLES
    \* Sim900
    status, buffer, auto_del_message, npd, m, many_sms, task_queue,
    \* the transport: the bytes waiting to be read, as pieces between "\r\n";
    \* the writes the modem has not answered; the groups it has emitted; whether
    \* it has powered down
    rx, wire, urcs, off,
    \* where the single thread is: "app" (the embedding application, outside
    \* run), "loop" (run's outer while), "drain" (its inner while), "poll"
    \* (in_waiting), "sleep" (sleep(0.5)), "wait" (sleep(time_response) of a
    \* transaction); and the transaction it waits in
    pc, cur,
    \* history: tasks appended so far; tasks invoked, in order; the last call
    \* of checking_incoming_data; the last transaction; the last run_task; the
    \* state of the last run(); who set npd; whether sleep(0.5) was entered
    \* with npd set
    nseq, invoked, chk, txn, rt, run, npdBy, idled,
    \* history of the reassembly buffer: the strs it was called with, in
    \* order, and what the last call returned
    ingested, got

vars == <<status, buffer, auto_del_message, npd, m, many_sms, task_queue,
          rx, wire, urcs, off, pc, cur,
          nseq, invoked, chk, txn, rt, run, npdBy, idled, ingested, got>>

session == <<status, auto_del_message, npd, m, many_sms, task_queue>>
modem == <<rx, wire, urcs, off>>
history == <<nseq, invoked, chk, txn, rt, run, npdBy, idled, ingested, got>>

NoCur == [who |-> "none", cmd |-> <<>>, sms_id |-> -1, msg |-> None]

\* Sim900.__init__
Init ==
    /\ status = FALSE
    /\ buffer = <<>>
    /\ auto_del_message = TRUE
    /\ npd = FALSE
    /\ m = EmptyDict
    /\ many_sms = FALSE
    /\ task_queue = <<>>
    /\ rx = <<>> /\ wire = <<>> /\ urcs = 0 /\ off = FALSE
    /\ pc = "app" /\ cur = NoCur 
    /\ nseq = 0
    /\ invoked = <<>>
    /\ chk = [n |-> 0, src |-> "none", st |-> <<>>, before |-> <<>>,
              after |-> <<>>, ret |-> FALSE, trace |-> <<>>]
    /\ txn = [n |-> 0, who |-> "none", cmd |-> <<>>, buffer |-> <<>>,
              data |-> <<>>, exc |-> "none", ret |-> <<>>, carried |-> <<>>,
              chkn |-> 0]
    /\ rt = [n |-> 0, exc |-> "none", ret |-> FALSE]
    /\ run = "none"
    /\ npdBy = "none"
    /\ idled = FALSE
    /\ ingested = <<>>
    /\ got = None

(* ------------------------------ actions ------------------------------- *)

\* The session as the handlers see it at the start of an action.
Here ==
    [task_queue |-> task_queue, many_sms |-> many_sms, npd |-> npd,
     status |-> status, out |-> <<>>, trace |-> <<>>, nseq |-> nseq]

\* The session as the handlers leave it; the bytes written go to the modem.
Commit(E) ==
    /\ task_queue' = E.task_queue
    /\ many_sms' = E.many_sms
    /\ npd' = E.npd
    /\ status' = E.status
    /\ nseq' = E.nseq
    /\ wire' = wire \o E.out

\* read(): self.buffer = read_all(), and what the history keeps of the call
\* of checking_incoming_data on the batch.
Read(src, c) ==
    /\ buffer' = rx
    /\ rx' = <<>>
    /\ chk' = [n |-> chk.n + 1, src |-> src, st |-> parser_read(rx),
               before |-> task_queue, after |-> c.E.task_queue,
               ret |-> c.ret, trace |-> c.E.trace]
    /\ npdBy' = IF c.E.npd /\ ~npd THEN src ELSE npdBy

\* connect()
connect ==
    /\ pc = "app"
    /\ status' = TRUE
    /\ UNCHANGED <<buffer, auto_del_message, npd, m, many_sms, task_queue,
                   modem, pc, cur, history>>

\* The application sets the auto-delete policy before it starts the session.
set_auto_del_message ==
    /\ pc = "app" /\ run = "none" /\ txn.n = 0
    /\ auto_del_message' = ~auto_del_message
    /\ UNCHANGED <<status, buffer, npd, m, many_sms, task_queue,
                   modem, pc, cur, history>>

\* send_command(c) up to its sleep(time_response): the write.
send_command(E, who, c, sms_id, msg) ==
    /\ Commit(command(E, c))
    /\ pc' = "wait"
    /\ cur' = [who |-> who, cmd |-> c, sms_id |-> sms_id, msg |-> msg]

\* The history of a transaction that ends with the result r of
\* parser_command.
Transaction(r) ==
    /\ Read("task", [E |-> r.E, ret |-> r.chk])
    /\ txn' = [n |-> txn.n + 1, who |-> cur.who, cmd |-> cur.cmd,
               buffer |-> rx, data |-> parser_read(rx), exc |-> r.exc,
               ret |-> r.ret, carried |-> r.carried, chkn |-> chk.n + 1]

\* The application calls run(), once.
run_begin ==
    /\ pc = "app" /\ run = "none"
    /\ pc' = "loop" /\ run' = "running"
    /\ UNCHANGED <<status, buffer, auto_del_message, npd, m, many_sms,
                   task_queue, modem, cur,
                   nseq, invoked, chk, txn, rt, npdBy, idled, ingested, got>>

\* while self.npd is False
run_while ==
    /\ pc = "loop"
    /\ IF npd = FALSE
       THEN pc' = "drain" /\ UNCHANGED run
       ELSE pc' = "app" /\ run' = "returned"
    /\ UNCHANGED <<status, buffer, auto_del_message, npd, m, many_sms,
                   task_queue, modem, cur,
                   nseq, invoked, chk, txn, rt, npdBy, idled, ingested, got>>

\* Defect: the inner while stops with one task left.
inner_while_leaves_one(q) == Len(q) > 1

\* while len(self._task_queue) > 0
inner_while(q) == Len(q) > 0

\* Defect: pop() for popleft(): the newest task is taken.
popleft_newest(q) == [task |-> q[Len(q)], rest |-> SubSeq(q, 1, Len(q) - 1)]

\* Defect: the head task is invoked but left in the queue.
popleft_keeps(q) == [task |-> Head(q), rest |-> q]

\* self._task_queue.popleft()
popleft(q) == [task |-> Head(q), rest |-> Tail(q)]

\* The exceptions of a task that run_task's except clause catches.
run_task_catches(exc) == exc = "IndexError"

\* A task returns: run_task returns True.
TaskReturns(E) ==
    /\ Commit(E)
    /\ pc' = "drain" /\ cur' = NoCur
    /\ rt' = [n |-> rt.n + 1, exc |-> "none", ret |-> TRUE]
    /\ UNCHANGED run

\* A task raises exc: run_task returns False when it catches exc; otherwise
\* exc leaves run_task and run.
TaskRaises(E, exc) ==
    /\ Commit(E)
    /\ cur' = NoCur
    /\ rt' = [n |-> rt.n + 1, exc |-> exc, ret |-> FALSE]
    /\ IF run_task_catches(exc)
       THEN pc' = "drain" /\ UNCHANGED run
       ELSE pc' = "app" /\ run' = exc

\* __incoming_sms after get_sms returned msg.
incoming_sms_end(E, msg) ==
    IF msg # None
    THEN QueueAppend(E, "additional_function_message", -1, msg)
    ELSE E

\* run_task(): the head task is removed and invoked.  The message handler
\* does nothing by default; __incoming_sms runs up to the wait of its first
\* transaction.
run_task ==
    /\ pc = "drain" /\ inner_while(task_queue)
    /\ LET p == popleft(task_queue)
           E == [Here EXCEPT !.task_queue = p.rest]
       IN /\ invoked' = Append(invoked, p.task)
          /\ IF p.task.h = "additional_function_message"
             THEN TaskReturns(E)
             ELSE /\ send_command(E, "cmgr", <<CMGR>> \o StrOf(p.task.sms_id),
                                  p.task.sms_id, None)
                  /\ UNCHANGED <<rt, run>>
    /\ UNCHANGED <<buffer, auto_del_message, m, rx, urcs, off,
                   chk, txn, npdBy, idled, ingested, got>>

\* get_sms after the wait of AT+CMGR: the response is parsed, its second
\* interior line decoded, and the delete transaction started when auto-delete
\* is on.
get_sms_read ==
    /\ pc = "wait" /\ cur.who = "cmgr"
    /\ LET r == parser_command(Here, parser_read(rx), rx) IN
       /\ Transaction(r)
       /\ IF r.exc # "none"
          THEN TaskRaises(r.E, r.exc) /\ UNCHANGED <<m, ingested, got>>
          ELSE IF Len(r.ret) < 2
          THEN TaskRaises(r.E, "IndexError") /\ UNCHANGED <<m, ingested, got>>
          ELSE LET a == AdditionMessages_call(m, r.ret[2]) IN
               /\ m' = a.m
               /\ ingested' = Append(ingested, r.ret[2])
               /\ got' = a.ret
               /\ IF auto_del_message
                  THEN /\ send_command(r.E, "cmgd", <<CMGD>> \o StrOf(cur.sms_id),
                                       cur.sms_id, a.ret)
                       /\ UNCHANGED <<rt, run>>
                  ELSE TaskReturns(incoming_sms_end(r.E, a.ret))
    /\ UNCHANGED <<auto_del_message, urcs, off, invoked, idled>>

\* del_sms after the wait of AT+CMGD, and the rest of __incoming_sms.
del_sms_read ==
    /\ pc = "wait" /\ cur.who = "cmgd"
    /\ LET r == parser_command(Here, parser_read(rx), rx) IN
       /\ Transaction(r)
       /\ IF r.exc # "none"
          THEN TaskRaises(r.E, r.exc)
          ELSE TaskReturns(incoming_sms_end(r.E, cur.msg))
    /\ UNCHANGED <<auto_del_message, m, urcs, off, invoked, idled,
                   ingested, got>>

\* The inner while ends.
drained ==
    /\ pc = "drain" /\ ~inner_while(task_queue)
    /\ pc' = "poll"
    /\ UNCHANGED <<status, buffer, auto_del_message, npd, m, many_sms,
                   task_queue, modem, cur, history>>

\* Defect: no break; run sleeps whatever the poll found.
poll_next_no_break(ret) == "sleep"

\* Where run goes after checking_incoming_data returned ret to its poll.
poll_next(ret) == IF ret THEN "app" ELSE "sleep"

\* if self._connect.in_waiting > 0: if checking_incoming_data(read()): break
poll ==
    /\ pc = "poll"
    /\ IF Len(rx) > 0
       THEN LET c == checking_incoming_data(Here, parser_read(rx)) IN
            /\ Read("poll", c)
            /\ Commit(c.E)
            /\ pc' = poll_next(c.ret)
            /\ run' = IF poll_next(c.ret) = "app" THEN "returned" ELSE run
       ELSE /\ pc' = "sleep"
            /\ UNCHANGED <<status, buffer, npd, many_sms, task_queue, rx, wire,
                           nseq, chk, run, npdBy>>
    /\ UNCHANGED <<auto_del_message, m, urcs, off, cur,
                   invoked, txn, rt, idled, ingested, got>>

\* sleep(0.5)
sleep ==
    /\ pc = "sleep"
    /\ pc' = "loop"
    /\ idled' = (idled \/ npd)
    /\ UNCHANGED <<status, buffer, auto_del_message, npd, m, many_sms,
                   task_queue, modem, cur,
                   nseq, invoked, chk, txn, rt, run, npdBy, ingested, got>>

\* Time passes for the modem only while the thread sleeps.
Asleep == pc \in {"wait", "sleep"}

\* The modem emits an unsolicited group; after the power-down notice it is
\* silent.
modem_urc(g) ==
    /\ Asleep /\ ~off /\ urcs < MaxUrc
    /\ rx' = rx \o g
    /\ urcs' = urcs + 1
    /\ off' = (g = <<NPD>>)
    /\ UNCHANGED <<status, buffer, auto_del_message, npd, m, many_sms,
                   task_queue, wire, pc, cur, history>>

\* The modem answers the oldest write it has not answered.
modem_answer(a) ==
    /\ Asleep /\ ~off /\ wire # <<>>
    /\ a \in Answers(Head(wire))
    /\ rx' = rx \o a
    /\ wire' = Tail(wire)
    /\ UNCHANGED <<status, buffer, auto_del_message, npd, m, many_sms,
                   task_queue, urcs, off, pc, cur, history>>

AllAnswers == UNION {Answers(<<k>> \o StrOf(i) \o <<CR>>) : k \in {CMGR, CMGD}, i \in SmsIds}
              \cup Answers(ATH \o <<CR>>)

Next ==
    \/ connect
    \/ set_auto_del_message
    \/ run_begin
    \/ run_while
    \/ run_task
    \/ get_sms_read
    \/ del_sms_read
    \/ drained
    \/ poll
    \/ sleep
    \/ \E g \in UrcGroups : modem_urc(g)
    \/ \E a \in AllAnswers : modem_answer(a)

Spec == Init /\ [][Next]_vars

(* ------------------- the reassembly buffer on its own ------------------ *)

Texts == <<"A", "B", "C">>

\* The strs the buffer is called with: the parts of concatenated messages,
\* part i carrying the i-th text, from either sender; a message in one part;
\* a malformed PDU.
AmPdus ==
    {PduPart(ph, "T" \o ph, Texts[i], ref, i, n) :
         ph \in Phones, ref \in {1, 2}, i \in 1..3, n \in 2..3}
    \cup {Pdu("+15551234567", "T0", "D"), PduBad}

\* self._a(msg), called outside run (as get_all_sms_message does).
ingest(msg) ==
    /\ pc = "app" /\ run = "none"
    /\ Len(ingested) < MaxIngest
    /\ LET a == AdditionMessages_call(m, msg) IN
       /\ m' = a.m
       /\ got' = a.ret
    /\ ingested' = Append(ingested, msg)
    /\ UNCHANGED <<status, buffer, auto_del_message, npd, many_sms, task_queue,
                   modem, pc, cur, nseq, invoked, chk, txn, rt, run, npdBy, idled>>

NextAM == \E msg \in AmPdus : ingest(msg)

SpecAM == Init /\ [][NextAM]_vars

(* ------------------------------- claims ------------------------------- *)

\* A task that a line batch put in the queue: a fetch task, or the message
\* handler on a USSD response.
EnqueuedByBatch(t) ==
    \/ t.h = "__incoming_sms"
    \/ t.h = "additional_function_message" /\ t.msg[1].phone = <<"USSD">>

\* The lines of a batch that contain a marker.
LinesWith(f, st) == SelectSeq(st, LAMBDA x : Contains(f, x))

\* C1: every failure a deferred task raises while run_task invokes it, an
\* index-out-of-range included, leaves run_task and ends run with that
\* failure.
C1_TaskFailureEndsRun ==
    rt.exc # "none" => (pc = "app" /\ run = rt.exc /\ ~rt.ret)

\* C2: whenever a batch is passed to checking_incoming_data, from the poll or
\* from a transaction of a deferred task, the queue holds no task that an
\* earlier batch enqueued.
C2_NoEarlierTaskAtClassify ==
    chk.n > 0 => \A i \in 1..Len(chk.before) : ~EnqueuedByBatch(chk.before[i])

\* C2 as amended: whenever a batch read by the poll of run is passed to
\* checking_incoming_data, the queue is empty.
C2_QueueEmptyAtPoll ==
    chk.src = "poll" => chk.before = <<>>

C2_Witness ==
    /\ chk.src = "poll"
    /\ Len(invoked) >= 2
    /\ chk.after # <<>>

\* C3: the queue is FIFO.  Tasks are numbered in the order they are appended;
\* the tasks invoked so far are the first ones appended, in that order, and the
\* queue holds the rest in that order, so a task appended while another runs
\* is behind all that were queued; and a step invokes at most one task, the
\* head, and removes it.
C3_Fifo ==
    /\ [](/\ nseq = Len(invoked) + Len(task_queue)
          /\ \A i \in 1..Len(invoked) : invoked[i].seq = i
          /\ \A j \in 1..Len(task_queue) : task_queue[j].seq = Len(invoked) + j)
    /\ [][invoked' # invoked =>
              /\ task_queue # <<>>
              /\ invoked' = Append(invoked, Head(task_queue))
              /\ Len(task_queue') >= Len(task_queue) - 1
              /\ SubSeq(task_queue', 1, Len(task_queue) - 1) = Tail(task_queue)]_vars

C3_Witness ==
    \E i \in 3..Len(invoked) :
        /\ invoked[i].h = "additional_function_message"
        /\ ~EnqueuedByBatch(invoked[i])
        /\ invoked[i - 1].h = "__incoming_sms"
        /\ invoked[i - 2].h = "__incoming_sms"

\* C4: whenever a batch with NORMAL POWER DOWN sets the flag while run is
\* executing, from the poll or from a transaction of a deferred task, run
\* ends without a sleep(0.5) after the flag was set.
C4_NoIdleWaitAfterPowerDown ==
    npdBy \in {"poll", "task"} => ~idled

\* C4 as amended: whenever a batch read by the poll of run sets the flag, run
\* returns at once, without a sleep(0.5) after the flag was set.
C4_PollPowerDownEndsRun ==
    npdBy = "poll" => (~idled /\ pc = "app" /\ run = "returned")

C4_Witness ==
    /\ npdBy = "poll"
    /\ run = "returned"
    /\ invoked # <<>>

\* C5: npd is false initially; a call of checking_incoming_data on a batch
\* with a line containing NORMAL POWER DOWN sets npd true and status false and
\* returns true; every other call returns false and leaves npd alone; no
\* other step changes npd, and once true it stays true.
C5_PowerDownFlag ==
    /\ ~npd
    /\ [][/\ npd => npd'
          /\ chk'.n = chk.n => npd' = npd
          /\ chk'.n # chk.n =>
                IF LinesWith(NPD, chk'.st) # <<>>
                THEN npd' /\ ~status' /\ chk'.ret
                ELSE npd' = npd /\ ~chk'.ret]_vars

C5_Witness ==
    /\ npd
    /\ status
    /\ chk.ret

\* C6: the outcome of a transaction is decided by the batch it read.  An
\* empty batch: Sim900NoResponse.  A batch whose last line is ERROR:
\* Sim900Error with the bytes just read.  Any other batch: the lines between
\* the first and the last are returned, none for a batch of two lines.
C6_TransactionOutcome ==
    txn.n > 0 =>
        LET d == txn.data
            n == Len(d)
        IN /\ n = Len(txn.buffer) - Cardinality({i \in 1..Len(txn.buffer) : txn.buffer[i] = <<>>})
           /\ n = 0 => txn.exc = "Sim900NoResponse"
           /\ (n > 0 /\ d[n] = <<"ERROR">>) =>
                  (txn.exc = "Sim900Error" /\ txn.carried = txn.buffer)
           /\ (n > 0 /\ d[n] # <<"ERROR">>) =>
                  /\ txn.exc = "none"
                  /\ Len(txn.ret) = (IF n >= 2 THEN n - 2 ELSE 0)
                  /\ \A i \in 1..Len(txn.ret) : txn.ret[i] = d[i + 1]

C6_Witness ==
    /\ txn.n > 0
    /\ Len(txn.data) = 2
    /\ txn.data[2] = <<"OK">>
    /\ txn.exc = "none"
    /\ txn.ret = <<>>

\* C7: what a successful transaction returns holds neither the echo of its
\* command nor a final status line.
C7_OnlyInteriorLines ==
    (txn.n > 0 /\ txn.exc = "none") =>
        \A i \in 1..Len(txn.ret) :
            /\ txn.ret[i] # txn.cmd \o <<"\r">>
            /\ txn.ret[i] # <<"OK">>
            /\ txn.ret[i] # <<"ERROR">>

\* C8: a transaction passes the whole batch it read to
\* checking_incoming_data before it decides the outcome.  When it then raises
\* Sim900Error, the hang-up is written and the call handler invoked for a
\* ring, a task is queued for every USSD and new-message line, and the
\* power-down flag is set; when it raises Sim900NoResponse the call was made on
\* the empty batch and changed nothing.
C8_ClassifiedBeforeOutcome ==
    [][txn'.n # txn.n =>
          LET st == txn'.data
              ring == LinesWith(RING, st) # <<>>
              added == SubSeq(task_queue', Len(task_queue) + 1, Len(task_queue'))
          IN /\ chk'.n = chk.n + 1
             /\ txn'.chkn = chk'.n
             /\ chk'.st = st
             /\ chk'.src = "task"
             /\ txn'.exc = "Sim900Error" =>
                   /\ LinesWith(NPD, st) # <<>> => (npd' /\ ~status')
                   /\ wire' = wire \o (IF ring THEN <<<<"ATH", "\r">>>> ELSE <<>>)
                   /\ Len(SelectSeq(chk'.trace, LAMBDA e : e.op = "call"))
                          = (IF ring THEN Len(LinesWith(CLIP, st)) ELSE 0)
                   /\ SubSeq(task_queue', 1, Len(task_queue)) = task_queue
                   /\ Len(added) = Len(LinesWith(CUSD, st)) + Len(LinesWith(CMTI, st))
                   /\ \A i \in 1..Len(added) :
                          added[i].h = (IF i <= Len(LinesWith(CUSD, st))
                                        THEN "additional_function_message"
                                        ELSE "__incoming_sms")
             /\ txn'.exc = "Sim900NoResponse" =>
                   /\ st = <<>>
                   /\ chk'.trace = <<>>
                   /\ ~chk'.ret
                   /\ UNCHANGED <<task_queue, npd, status, many_sms, wire>>]_vars

C8_Witness ==
    /\ txn.exc = "Sim900Error"
    /\ chk.n = txn.chkn
    /\ LinesWith(RING, chk.st) # <<>>
    /\ LinesWith(CLIP, chk.st) # <<>>
    /\ Len(chk.trace) = 2

\* C10: classifying a batch with a RING line writes ATH once, before anything
\* else; then the call handler is invoked at once, once for each CLIP line of
\* the batch in turn, with the number of that line; the ring handling appends
\* nothing to the queue.
C10_RingHandling ==
    (chk.n > 0 /\ LinesWith(RING, chk.st) # <<>>) =>
        LET clips == LinesWith(CLIP, chk.st)
            k == Len(clips)
            tr == chk.trace
        IN /\ Len(tr) >= 1 + k
           /\ tr[1] = Ev("write", <<"ATH", "\r">>)
           /\ \A i \in 1..k : tr[1 + i] = Ev("call", <<clips[i][5]>>)
           /\ \A i \in (2 + k)..Len(tr) : tr[i].op = "append"
           /\ Len(tr) - (1 + k)
                  = Len(LinesWith(CUSD, chk.st)) + Len(LinesWith(CMTI, chk.st))
           /\ Len(chk.after) = Len(chk.before) + Len(tr) - (1 + k)

C10_Witness ==
    /\ chk.n > 0
    /\ LinesWith(RING, chk.st) # <<>>
    /\ Len(chk.trace) = 3
    /\ chk.trace[2].op = "call"
    /\ chk.trace[3].op = "call"
    /\ chk.trace[2].arg # chk.trace[3].arg
    /\ chk.after = chk.before

\* The fields of a part of a concatenated message, read off its PDU.
PartRef(p) == p[5]
PartIdx(p) == p[6]
PartTotal(p) == p[7]
IsPart(p) == Len(p) = 7

\* C9: n parts with one reference id, each declaring n parts, with the part
\* numbers 1..n in any order, are ingested into a buffer with no entry for
\* that id.  The buffer returns None for the first n - 1 and keeps the entry;
\* for the n-th it returns the Message with the texts joined in the order of
\* the part numbers and the sender and time of the n-th, and drops the entry.
C9_Reassembly ==
    \A n \in 1..9 :
        ingested # <<>> =>
        LET k == Len(ingested)
            last == ingested[k]
            ref == IntOf(<<PartRef(last)>>)
            digit == Digits[n + 1]
            good == /\ \A i \in 1..k :
                           /\ IsPart(ingested[i])
                           /\ PartRef(ingested[i]) = PartRef(last)
                           /\ PartTotal(ingested[i]) = digit
                           /\ IntOf(<<PartIdx(ingested[i])>>) \in 1..n
                    /\ \A i, j \in 1..k :
                           i # j => PartIdx(ingested[i]) # PartIdx(ingested[j])
            textOf(x) == ingested[CHOOSE i \in 1..k :
                                      IntOf(<<PartIdx(ingested[i])>>) = x][4]
        IN (IsPart(last) /\ good) =>
               IF k < n
               THEN /\ got = <<>>
                    /\ ref \in DOMAIN m
                    /\ Cardinality(DOMAIN m[ref]) = k
               ELSE /\ k = n
                    /\ got = <<[phone |-> <<last[2]>>, ts |-> last[3],
                                text |-> [x \in 1..n |-> textOf(x)]]>>
                    /\ ref \notin DOMAIN m

C9_Witness ==
    /\ Len(ingested) = 3
    /\ \A i \in 1..3 : IsPart(ingested[i])
    /\ PartIdx(ingested[1]) = "2"
    /\ PartIdx(ingested[2]) = "1"
    /\ PartIdx(ingested[3]) = "3"
    /\ ingested[1][2] # ingested[3][2]
    /\ got # <<>>
    /\ got[1].text = <<"A", "B", "C">>
    /\ got[1].phone = <<ingested[3][2]>>
    /\ m = EmptyDict

\* The batch holds no line with a recognized marker.
NoMarker(st) ==
    /\ LinesWith(RING, st) = <<>>
    /\ LinesWith(CUSD, st) = <<>>
    /\ LinesWith(CMTI, st) = <<>>
    /\ LinesWith(NPD, st) = <<>>

\* C11: a call of checking_incoming_data on a batch with no line containing
\* RING, CUSD:, +CMTI: "SM" or NORMAL POWER DOWN, the empty batch included,
\* returns false, writes nothing, invokes no handler and appends nothing, and
\* leaves npd, status and many_sms alone; the reassembly buffer is as it was,
\* but for the fragment that the calling transaction of get_sms then ingests.
C11_NoMarkerNoEffect ==
    [][(chk'.n # chk.n /\ NoMarker(chk'.st)) =>
          /\ ~chk'.ret
          /\ chk'.trace = <<>>
          /\ chk'.after = chk'.before
          /\ chk'.before = task_queue
          /\ UNCHANGED <<npd, status, many_sms>>
          /\ IF chk'.src = "poll"
             THEN UNCHANGED <<m, task_queue, wire>>
             ELSE m' = (IF ingested' = ingested THEN m
                        ELSE AdditionMessages_call(
                                 m, ingested'[Len(ingested')]).m)]_vars

C11_Witness ==
    /\ chk.src = "poll"
    /\ chk.st # <<>>
    /\ NoMarker(chk.st)
    /\ status
    /\ many_sms
    /\ m # EmptyDict
    /\ task_queue = <<>>

\* C12: for every reference id in the reassembly buffer, the number of part
\* indices stored in its entry is at most the total declared by each fragment
\* ingested so far with that reference id.
C12_StoredWithinDeclared ==
    \A ref \in DOMAIN m :
        \A i \in 1..Len(ingested) :
            (IsPart(ingested[i]) /\ IntOf(<<PartRef(ingested[i])>>) = ref) =>
                Cardinality(DOMAIN m[ref]) <= IntOf(<<PartTotal(ingested[i])>>)

\* The buffer after the strs of s were ingested in turn into an empty one.
RECURSIVE BufferAfter(_)
BufferAfter(s) ==
    IF s = <<>> THEN EmptyDict
    ELSE AdditionMessages_call(BufferAfter(SubSeq(s, 1, Len(s) - 1)),
                               s[Len(s)]).m

\* C13: the total of an entry is the one its first fragment declared.  When
\* a fragment is ingested whose reference id has an entry, the message is
\* returned exactly when the number of part indices stored, that fragment's
\* included, equals the total declared by the fragment that created the
\* entry.
C13_TotalFixedByFirst ==
    ingested # <<>> =>
        LET k == Len(ingested)
            last == ingested[k]
            before == BufferAfter(SubSeq(ingested, 1, k - 1))
        IN (IsPart(last) /\ IntOf(<<PartRef(last)>>) \in DOMAIN before) =>
               LET ref == IntOf(<<PartRef(last)>>)
                   created(j) ==
                       /\ IsPart(ingested[j])
                       /\ IntOf(<<PartRef(ingested[j])>>) = ref
                       /\ ref \notin DOMAIN BufferAfter(SubSeq(ingested, 1, j - 1))
                   j == CHOOSE x \in 1..(k - 1) :
                            /\ created(x)
                            /\ \A y \in (x + 1)..(k - 1) : ~created(y)
                   stored == Cardinality(DOMAIN before[ref]
                                         \cup {IntOf(<<PartIdx(last)>>)})
               IN (got # None) <=> (stored = IntOf(<<PartTotal(ingested[j])>>))

\* C14: ingesting a str that fails to decode returns None, raises nothing
\* (the call completes and is recorded like any other) and leaves the
\* reassembly buffer as it was: no entry is created, changed or removed.
C14_DecodeFailureDropped ==
    [][(ingested' # ingested /\ ~PduOk(ingested'[Len(ingested')])) =>
          /\ Len(ingested') = Len(ingested) + 1
          /\ SubSeq(ingested', 1, Len(ingested)) = ingested
          /\ got' = None
          /\ m' = m]_vars

C14_Witness ==
    /\ Len(ingested) >= 2
    /\ ~PduOk(ingested[Len(ingested)])
    /\ IsPart(ingested[Len(ingested) - 1])
    /\ got = None
    /\ m # EmptyDict

\* C15: an entry of the reassembly buffer is removed only by the ingest of a
\* part with its reference id that brings the number of stored part indices
\* to the total that part declares, and that ingest returns the Message.
\* Every other ingest of a part with that id keeps the entry and the indices
\* it holds; every other step, an ingest that fails to decode and every
\* operation of the session included, leaves the entry as it is, so an
\* incomplete entry stays in the buffer.
C15_RemovedOnlyOnCompletion ==
    [][\A ref \in DOMAIN m :
          LET new == ingested'[Len(ingested')]
              byIngest == /\ ingested' # ingested
                          /\ PduOk(new) /\ IsPart(new)
                          /\ IntOf(<<PartRef(new)>>) = ref
              idx == IntOf(<<PartIdx(new)>>)
          IN IF byIngest
             THEN IF Cardinality(DOMAIN m[ref] \cup {idx})
                         = IntOf(<<PartTotal(new)>>)
                  THEN ref \notin DOMAIN m' /\ got' # None
                  ELSE /\ ref \in DOMAIN m'
                       /\ DOMAIN m'[ref] = DOMAIN m[ref] \cup {idx}
                       /\ \A x \in DOMAIN m[ref] \ {idx} : m'[ref][x] = m[ref][x]
                       /\ got' = None
             ELSE ref \in DOMAIN m' /\ m'[ref] = m[ref]]_vars

C15_Witness ==
    /\ m # EmptyDict
    /\ run = "returned"
    /\ txn.who = "cmgd"
    /\ txn.exc = "none"
    /\ Len(ingested) = 1
    /\ idled

\* The Message the fetch task that ends in this step got from get_sms, None
\* when it got none.
FetchedMessage ==
    IF cur.who = "cmgd" THEN cur.msg
    ELSE IF ingested' # ingested THEN got'
    ELSE None

\* The tasks a step appended.
Appended == SubSeq(task_queue', Len(chk'.before) + 1, Len(task_queue'))

\* First part of C16: classifying a batch appends one fetch task for each
\* +CMTI: "SM" line, with the index of that line, and starts no transaction.
OneFetchPerLine ==
    chk'.n # chk.n =>
        LET lines == LinesWith(CMTI, chk'.st)
            added == SubSeq(chk'.after, Len(chk'.before) + 1, Len(chk'.after))
            fetch == SelectSeq(added, LAMBDA t : t.h = "__incoming_sms")
        IN /\ Len(fetch) = Len(lines)
           /\ \A i \in 1..Len(lines) :
                  fetch[i].sms_id = IntOf(<<lines[i][Len(lines[i])]>>)
           /\ \A i \in 1..Len(chk'.trace) :
                  chk'.trace[i].op \in {"write", "call", "append"}

\* Second part of C16: a fetch task for index i writes AT+CMGR=i first;
\* AT+CMGD=i is written only with auto-delete on and only by the step in
\* which the read transaction of that task returned.
ReadThenDelete ==
    /\ (invoked' # invoked /\ invoked'[Len(invoked')].h = "__incoming_sms") =>
           wire' = Append(wire, <<CMGR>> \o StrOf(invoked'[Len(invoked')].sms_id)
                                \o <<CR>>)
    /\ \A i \in SmsIds :
           (\E k \in (Len(wire) + 1)..Len(wire') :
                 wire'[k] = <<CMGD>> \o StrOf(i) \o <<CR>>) =>
               /\ auto_del_message
               /\ cur.who = "cmgr" /\ cur.sms_id = i
               /\ txn'.n = txn.n + 1 /\ txn'.exc = "none"
               /\ txn'.cmd = <<CMGR>> \o StrOf(i)

\* Third part of C16: when a fetch task ends, by returning or by raising, it
\* has appended the message handler, with the Message, if and only if get_sms
\* got a complete Message from the frame it fetched.
HandlerIffMessage ==
    (rt'.n # rt.n /\ cur.who \in {"cmgr", "cmgd"}) =>
        ((FetchedMessage # None) <=>
             \E i \in 1..Len(Appended) :
                 /\ Appended[i].h = "additional_function_message"
                 /\ Appended[i].msg = FetchedMessage)

\* C16: classifying a batch with +CMTI: "SM" lines starts no transaction and
\* appends one fetch task per line; the fetch task for index i writes
\* AT+CMGR=i first and, with auto-delete on, AT+CMGD=i only after the read
\* succeeded; it appends the message handler if and only if a complete
\* Message came out of the frame it fetched.
C16_FetchThenHandler ==
    [][OneFetchPerLine /\ ReadThenDelete /\ HandlerIffMessage]_vars

\* C17: checking_incoming_data is not re-entered.  While it processes a batch
\* it writes at most the hang-up and reads nothing: what it does is writes
\* without a read, handler calls and appends.  A step classifies at most one
\* batch and ends at most one transaction, which classified that batch; a
\* transaction is started only when none is waiting or by the step that ends
\* the one waiting, so transactions do not nest.
C17_NoReentry ==
    /\ [](\A i \in 1..Len(chk.trace) :
              \/ chk.trace[i] = Ev("write", <<"ATH", "\r">>)
              \/ chk.trace[i].op \in {"call", "append"})
    /\ [][/\ chk'.n \in {chk.n, chk.n + 1}
          /\ txn'.n \in {txn.n, txn.n + 1}
          /\ txn'.n # txn.n => (chk'.n = chk.n + 1 /\ txn'.chkn = chk'.n
                                /\ pc = "wait" /\ txn'.cmd = cur.cmd)
          /\ (pc = "wait" /\ txn'.n = txn.n) => (pc' = "wait" /\ cur' = cur)
          /\ (pc # "wait" /\ pc' = "wait") => chk'.n = chk.n
          /\ (pc = "wait") = (cur.who # "none")]_vars

C17_Witness ==
    /\ chk.src = "task"
    /\ txn.chkn = chk.n
    /\ LinesWith(RING, chk.st) # <<>>
    /\ Len(chk.trace) = 2
    /\ pc = "wait"
    /\ cur.who = "cmgd"
    /\ Len(wire) = 2

\* C18: every queue entry is invoked at most once.  No two invocations are of
\* the same entry and no invoked entry is in the queue, whether its task
\* returned or raised; an invocation takes the head of the queue, which is
\* gone from the queue in the same step; so a Message queued for the handler
\* is handed to it once when the loop reaches it, and never again.
C18_InvokedAtMostOnce ==
    /\ [](/\ \A i, j \in 1..Len(invoked) :
                 i # j => invoked[i].seq # invoked[j].seq
          /\ \A i \in 1..Len(invoked) : \A j \in 1..Len(task_queue) :
                 invoked[i].seq # task_queue[j].seq
          /\ \A i, j \in 1..Len(task_queue) :
                 i # j => task_queue[i].seq # task_queue[j].seq)
    /\ [][/\ invoked' # invoked =>
                 /\ task_queue # <<>>
                 /\ invoked' = Append(invoked, Head(task_queue))
                 /\ \A j \in 1..Len(task_queue') :
                        task_queue'[j].seq # Head(task_queue).seq
          /\ (rt'.n # rt.n /\ rt'.exc # "none") =>
                 \A j \in 1..Len(task_queue') :
                     task_queue'[j].seq # invoked'[Len(invoked')].seq]_vars

C18_Witness ==
    /\ Len(invoked) = 3
    /\ invoked[1].h = "__incoming_sms"
    /\ invoked[2].h = "__incoming_sms"
    /\ invoked[3].h = "additional_function_message"
    /\ invoked[3].msg # None
    /\ ~EnqueuedByBatch(invoked[3])
    /\ rt.n = 3
    /\ txn.exc = "none"
    /\ Len(ingested) = 1
    /\ task_queue = <<>>

\* No task has raised, at a state where none is running: a fetch task that
\* returns has ingested one frame, one that raises has ingested none.
NoTaskRaised ==
    Len(SelectSeq(invoked, LAMBDA t : t.h = "__incoming_sms")) = Len(ingested)

\* C19: provided no task raises, every task appended while run executes has
\* been invoked when run returns: the queue is empty then, also when run
\* returns on a power-down notice that came in one batch with a new-message
\* or USSD notification.
C19_QueueEmptyAtReturn ==
    (run = "returned" /\ NoTaskRaised) => task_queue = <<>>

\* The tasks the last classification appended.
AddedByBatch == SubSeq(chk.after, Len(chk.before) + 1, Len(chk.after))

\* C20: the tasks a classification appends follow the order of the lines of
\* the batch, whatever their markers: the i-th task is the fetch task or the
\* message handler according to whether the i-th of the lines with +CMTI: "SM"
\* or CUSD: is a new-message or a USSD line.
C20_AppendedInLineOrder ==
    chk.n > 0 =>
        LET marked == SelectSeq(chk.st, LAMBDA x : Contains(CMTI, x)
                                                   \/ Contains(CUSD, x))
        IN /\ Len(AddedByBatch) = Len(marked)
           /\ \A i \in 1..Len(marked) :
                  AddedByBatch[i].h = (IF Contains(CMTI, marked[i])
                                       THEN "__incoming_sms"
                                       ELSE "additional_function_message")

\* C20 as amended: the tasks a classification appends are grouped by marker,
\* not ordered by line: first a message-handler task with a USSD Message for
\* each CUSD: line, then a fetch task for each +CMTI: "SM" line, wherever the
\* lines stand in the batch; and they are invoked in that order.
C20_UssdTasksBeforeFetchTasks ==
    /\ chk.n > 0 =>
           LET nu == Len(LinesWith(CUSD, chk.st))
               nm == Len(LinesWith(CMTI, chk.st))
           IN /\ Len(AddedByBatch) = nu + nm
              /\ \A i \in 1..nu :
                     /\ AddedByBatch[i].h = "additional_function_message"
                     /\ AddedByBatch[i].msg # None
                     /\ AddedByBatch[i].msg[1].phone = <<"USSD">>
              /\ \A i \in (nu + 1)..(nu + nm) :
                     AddedByBatch[i].h = "__incoming_sms"
    /\ \A i, j \in 1..Len(invoked) :
           (/\ i < j
            /\ \E a, b \in 1..Len(AddedByBatch) :
                   /\ AddedByBatch[a].seq = invoked[i].seq
                   /\ AddedByBatch[b].seq = invoked[j].seq) =>
               ~(/\ invoked[i].h = "__incoming_sms"
                 /\ invoked[j].h = "additional_function_message")

C20_Witness ==
    /\ chk.n > 0
    /\ Len(chk.st) = 2
    /\ Contains(CMTI, chk.st[1])
    /\ Contains(CUSD, chk.st[2])
    /\ Len(invoked) = 2
    /\ invoked[1].h = "additional_function_message"
    /\ invoked[1].seq = AddedByBatch[1].seq
    /\ invoked[2].h = "__incoming_sms"
    /\ invoked[2].seq = AddedByBatch[2].seq

====
